---- MODULE Spec2Model ----
(***************************************************************************)
(* PythonClient/pause_continue_car.py: a sequential script that connects   *)
(* to the simulator, enables API control and runs a fixed command loop     *)
(* (set controls, sleep, pause, sleep, continue for 600 ticks, sleep,      *)
(* resume, sleep).                                                         *)
(*                                                                         *)
(* Every statement of the script is one action; time.sleep(d) is d steps   *)
(* of one time unit each, during which the simulator advances.  Every      *)
(* client call either returns or raises; nothing in the script catches an  *)
(* exception, so a raise ends the run.  throttle and steering are kept in  *)
(* tenths (0.5 -> 5, 1 -> 10).                                             *)
(*                                                                         *)
(* The simulator behind the client (AirSimClient and the simulator itself) *)
(* is not part of the script; its effects are the operators Sim*, written  *)
(* from the interface table of the specification.                          *)
(***************************************************************************)
EXTENDS Integers, Sequences, FiniteSets

VARIABLES pc, it, i, client, car_controls, sim, calls, prints, sleeps,
          slept, clock, failedAt

vars == <<pc, it, i, client, car_controls, sim, calls, prints, sleeps,
          slept, clock, failedAt>>

----------------------------------------------------------------------------
(* Constants of the script *)

RangeStart == 1
RangeStop_OffByOne == 6 + 1
RangeStop == 6
Throttle == 5
Steering == 10
Ticks == 600
TicksPerUnit == 60
SleepRun == 5
SleepPaused_Short == 5 - 1
SleepPaused == 5
SleepContinue_Short == 5 + 4
SleepContinue == 20
SleepResume == 10

(* car_controls before line 8 binds the name *)
Unbound == [throttle |-> -1, steering |-> -1]

(* CarControls(): a fresh command object, all actuation at zero *)
CarControlsDefault == [throttle |-> 0, steering |-> 0]

----------------------------------------------------------------------------
(* The simulator, as the interface table describes it *)

Min(a, b) == IF a < b THEN a ELSE b

SimFresh ==
    [connected |-> FALSE, apiControl |-> FALSE, paused |-> FALSE,
     ticksLeft |-> 0, time |-> 0, controls |-> CarControlsDefault]

SimConfirmConnection(s) == [s EXCEPT !.connected = TRUE]

SimEnableApiControl(s, b) == [s EXCEPT !.apiControl = b]

SimSetCarControls(s, c) ==
    IF s.apiControl THEN [s EXCEPT !.controls = c] ELSE s

SimPause(s, b) == [s EXCEPT !.paused = b, !.ticksLeft = 0]

SimContinueForTicks(s, n) == [s EXCEPT !.paused = FALSE, !.ticksLeft = n]

(* one time unit of wall clock passing in the simulator *)
SimStep(s) ==
    IF s.paused THEN s
    ELSE IF s.ticksLeft > 0
         THEN LET adv == Min(s.ticksLeft, TicksPerUnit)
              IN  [s EXCEPT !.time = @ + adv,
                            !.ticksLeft = @ - adv,
                            !.paused = (s.ticksLeft - adv = 0)]
         ELSE [s EXCEPT !.time = @ + TicksPerUnit]

----------------------------------------------------------------------------
(* Statement shapes *)

CallRec(op, arg, ok) ==
    [op |-> op, arg |-> arg, iter |-> it, pre |-> sim, ok |-> ok]

(* a client call that returns: the simulator takes the effect *)
Returns(op, arg, effect, next) ==
    /\ calls' = Append(calls, CallRec(op, arg, TRUE))
    /\ sim' = effect
    /\ pc' = next
    /\ UNCHANGED <<it, i, client, car_controls, prints, sleeps, slept,
                   clock, failedAt>>

(* a client call that raises: uncaught, the process ends *)
Raises(op, arg) ==
    /\ calls' = Append(calls, CallRec(op, arg, FALSE))
    /\ failedAt' = op
    /\ pc' = "aborted"
    /\ UNCHANGED <<it, i, client, car_controls, sim, prints, sleeps,
                   slept, clock>>

Call(here, op, arg, effect, next) ==
    /\ pc = here
    /\ \/ Returns(op, arg, effect, next)
       \/ Raises(op, arg)

Emit(here, msg, next) ==
    /\ pc = here
    /\ prints' = Append(prints, msg)
    /\ pc' = next
    /\ UNCHANGED <<it, i, client, car_controls, sim, calls, sleeps, slept,
                   clock, failedAt>>

(* time.sleep(d): d blocking units, the simulator running meanwhile *)
Sleep(here, d, next) ==
    /\ pc = here
    /\ sim' = SimStep(sim)
    /\ clock' = clock + 1
    /\ IF slept + 1 >= d
       THEN /\ slept' = 0
            /\ sleeps' = Append(sleeps, d)
            /\ pc' = next
       ELSE /\ slept' = slept + 1
            /\ UNCHANGED <<sleeps, pc>>
    /\ UNCHANGED <<it, i, client, car_controls, calls, prints, failedAt>>

----------------------------------------------------------------------------
(* The script, statement by statement *)

Init ==
    /\ pc = "CarClient"
    /\ it = 0
    /\ i = 0
    /\ client = "unbound"
    /\ car_controls = Unbound
    /\ sim = SimFresh
    /\ calls = <<>>
    /\ prints = <<>>
    /\ sleeps = <<>>
    /\ slept = 0
    /\ clock = 0
    /\ failedAt = "none"

CarClient ==
    /\ pc = "CarClient"
    /\ client' = "open"
    /\ pc' = "confirmConnection"
    /\ UNCHANGED <<it, i, car_controls, sim, calls, prints, sleeps, slept,
                   clock, failedAt>>

(* the failure of confirmConnection caught and ignored *)
ConfirmConnection_Swallowed ==
    /\ pc = "confirmConnection"
    /\ \/ Returns("confirmConnection", <<>>, SimConfirmConnection(sim),
                  "enableApiControl")
       \/ /\ calls' = Append(calls, CallRec("confirmConnection", <<>>, FALSE))
          /\ failedAt' = "confirmConnection"
          /\ pc' = "enableApiControl"
          /\ UNCHANGED <<it, i, client, car_controls, sim, prints, sleeps,
                         slept, clock>>

ConfirmConnection ==
    Call("confirmConnection", "confirmConnection", <<>>,
         SimConfirmConnection(sim), "enableApiControl")

(* enableApiControl(False) *)
EnableApiControl_Disabled ==
    Call("enableApiControl", "enableApiControl", FALSE,
         SimEnableApiControl(sim, FALSE), "CarControls")

EnableApiControl ==
    Call("enableApiControl", "enableApiControl", TRUE,
         SimEnableApiControl(sim, TRUE), "CarControls")

NewCarControls ==
    /\ pc = "CarControls"
    /\ car_controls' = CarControlsDefault
    /\ pc' = "for"
    /\ UNCHANGED <<it, i, client, sim, calls, prints, sleeps, slept, clock,
                   failedAt>>

ForNext ==
    /\ pc = "for"
    /\ IF RangeStart + it < RangeStop
       THEN /\ i' = RangeStart + it
            /\ it' = it + 1
            /\ pc' = "printStarting"
       ELSE /\ pc' = "done"
            /\ UNCHANGED <<i, it>>
    /\ UNCHANGED <<client, car_controls, sim, calls, prints, sleeps, slept,
                   clock, failedAt>>

PrintStarting == Emit("printStarting", "Starting command", "setThrottle")

SetThrottle ==
    /\ pc = "setThrottle"
    /\ car_controls' = [car_controls EXCEPT !.throttle = Throttle]
    /\ pc' = "setSteering"
    /\ UNCHANGED <<it, i, client, sim, calls, prints, sleeps, slept, clock,
                   failedAt>>

(* steering with the wrong sign *)
SetSteering_Negated ==
    /\ pc = "setSteering"
    /\ car_controls' = [car_controls EXCEPT !.steering = 0 - Steering]
    /\ pc' = "setCarControls"
    /\ UNCHANGED <<it, i, client, sim, calls, prints, sleeps, slept, clock,
                   failedAt>>

SetSteering ==
    /\ pc = "setSteering"
    /\ car_controls' = [car_controls EXCEPT !.steering = Steering]
    /\ pc' = "setCarControls"
    /\ UNCHANGED <<it, i, client, sim, calls, prints, sleeps, slept, clock,
                   failedAt>>

(* a fresh CarControls() transmitted instead of the shared object *)
SetCarControls_Fresh ==
    Call("setCarControls", "setCarControls", CarControlsDefault,
         SimSetCarControls(sim, CarControlsDefault), "sleepRun")

SetCarControls ==
    Call("setCarControls", "setCarControls", car_controls,
         SimSetCarControls(sim, car_controls), "sleepRun")

DoSleepRun == Sleep("sleepRun", SleepRun, "printPausing")

PrintPausing == Emit("printPausing", "Pausing after 5sec", "simPauseTrue")

(* the pause call left out *)
SimPauseTrue_Skipped ==
    /\ pc = "simPauseTrue"
    /\ pc' = "sleepPaused"
    /\ UNCHANGED <<it, i, client, car_controls, sim, calls, prints, sleeps,
                   slept, clock, failedAt>>

SimPauseTrue ==
    Call("simPauseTrue", "simPause", TRUE, SimPause(sim, TRUE),
         "sleepPaused")

DoSleepPaused == Sleep("sleepPaused", SleepPaused, "printRestarting")

PrintRestarting ==
    Emit("printRestarting", "Restarting command to run for 10sec",
          "simContinueForTicks")

(* the failure of simContinueForTicks caught and ignored *)
SimContinue_Swallowed ==
    /\ pc = "simContinueForTicks"
    /\ \/ Returns("simContinueForTicks", Ticks,
                  SimContinueForTicks(sim, Ticks), "sleepContinue")
       \/ /\ calls' = Append(calls,
                              CallRec("simContinueForTicks", Ticks, FALSE))
          /\ failedAt' = "simContinueForTicks"
          /\ pc' = "sleepContinue"
          /\ UNCHANGED <<it, i, client, car_controls, sim, prints, sleeps,
                         slept, clock>>

SimContinue ==
    Call("simContinueForTicks", "simContinueForTicks", Ticks,
         SimContinueForTicks(sim, Ticks), "sleepContinue")

DoSleepContinue == Sleep("sleepContinue", SleepContinue, "printFinishing")

PrintFinishing ==
    Emit("printFinishing", "Finishing rest of the command", "simPauseFalse")

(* simPause(True) where the resume belongs *)
SimPauseFalse_PausesAgain ==
    Call("simPauseFalse", "simPause", TRUE, SimPause(sim, TRUE),
         "sleepResume")

SimPauseFalse ==
    Call("simPauseFalse", "simPause", FALSE, SimPause(sim, FALSE),
         "sleepResume")

DoSleepResume == Sleep("sleepResume", SleepResume, "printFinished")

PrintFinished == Emit("printFinished", "Finished cycle", "for")

Next ==
    \/ CarClient
    \/ ConfirmConnection
    \/ EnableApiControl
    \/ NewCarControls
    \/ ForNext
    \/ PrintStarting
    \/ SetThrottle
    \/ SetSteering
    \/ SetCarControls
    \/ DoSleepRun
    \/ PrintPausing
    \/ SimPauseTrue
    \/ DoSleepPaused
    \/ PrintRestarting
    \/ SimContinue
    \/ DoSleepContinue
    \/ PrintFinishing
    \/ SimPauseFalse
    \/ DoSleepResume
    \/ PrintFinished

Spec == Init /\ [][Next]_vars

(* the interpreter keeps running the one thread until it ends *)
FairSpec == Spec /\ WF_vars(Next)

----------------------------------------------------------------------------
(* Vocabulary of the properties *)

Failed == failedAt # "none"

Last(s) == s[Len(s)]

(* the calls issued during iteration j of the loop, in order *)
IterCalls(j) == SelectSeq(calls, LAMBDA c : c.iter = j)

IsSetCarControls(c) == c.op = "setCarControls"
IsPause(c, b) == c.op = "simPause" /\ c.arg = b
IsContinue(c, n) == c.op = "simContinueForTicks" /\ c.arg = n

(* the k-th call of an iteration is the one the loop body prescribes *)
IsLoopCall(c, k) ==
    CASE k = 1 -> IsSetCarControls(c)
      [] k = 2 -> IsPause(c, TRUE)
      [] k = 3 -> IsContinue(c, 600)
      [] k = 4 -> IsPause(c, FALSE)
      [] OTHER -> FALSE

Count(P(_)) == Cardinality({k \in DOMAIN calls : P(calls[k])})

NSetCarControls == Count(IsSetCarControls)
NPauseTrue == Count(LAMBDA c : IsPause(c, TRUE))
NContinue == Count(LAMBDA c : IsContinue(c, 600))
NPauseFalse == Count(LAMBDA c : IsPause(c, FALSE))

HalfFullLock == [throttle |-> 5, steering |-> 10]

----------------------------------------------------------------------------
(* C1: in every iteration the calls sent are setCarControls,              *)
(* simPause(True), simContinueForTicks(600), simPause(False), in that     *)
(* order, none skipped, repeated or reordered, and no call of a later     *)
(* iteration is issued before simPause(False) of the current one.         *)
C1_PhaseOrder ==
    /\ \A j \in 1..it :
          LET s == IterCalls(j)
          IN  /\ Len(s) <= 4
              /\ \A k \in 1..Len(s) : IsLoopCall(s[k], k)
              /\ (j < it => Len(s) = 4 /\ s[4].ok)
    /\ \A k \in DOMAIN calls :
          /\ calls[k].iter \in 0..it
          /\ k > 1 => calls[k - 1].iter <= calls[k].iter

C1_Witness ==
    /\ it = 2
    /\ Len(IterCalls(1)) = 4
    /\ Len(IterCalls(2)) = 3

(* C2: when no call fails the loop runs exactly 5 iterations: each of the *)
(* four calls is issued exactly 5 times over the run, never more.         *)
C2_FiveIterations ==
    /\ NSetCarControls <= 5 /\ NPauseTrue <= 5
    /\ NContinue <= 5 /\ NPauseFalse <= 5
    /\ it <= 5
    /\ pc = "done" =>
          /\ it = 5
          /\ NSetCarControls = 5 /\ NPauseTrue = 5
          /\ NContinue = 5 /\ NPauseFalse = 5

C2_Witness == pc = "done" /\ NPauseFalse = 5

(* C3: every command transmitted by setCarControls carries throttle 0.5   *)
(* and steering 1.0, in each iteration.                                   *)
C3_CommandValues ==
    \A k \in DOMAIN calls :
        IsSetCarControls(calls[k]) => calls[k].arg = HalfFullLock

C3_Witness ==
    /\ NSetCarControls = 5
    /\ IsSetCarControls(Last(calls))
    /\ Last(calls).arg = HalfFullLock

(* C4: from a fresh connection (unpaused, API control disabled), after    *)
(* the startup calls and one full iteration the simulator is unpaused,    *)
(* API control is enabled and the last transmitted command is (0.5, 1.0). *)
C4_AfterOneIteration ==
    (pc = "for" /\ it = 1) =>
        /\ ~calls[1].pre.paused /\ ~calls[1].pre.apiControl
        /\ ~sim.paused /\ sim.ticksLeft = 0
        /\ sim.apiControl
        /\ sim.controls = HalfFullLock
        /\ IterCalls(1)[1].arg = HalfFullLock

C4_Witness == pc = "for" /\ it = 1 /\ ~sim.paused /\ sim.apiControl

(* C5: when no call fails the script terminates, and in its terminal      *)
(* state the loop is exhausted, the connection was never closed and the   *)
(* simulator is unpaused and running freely, the last call of the run     *)
(* being simPause(False).                                                 *)
TerminalState ==
    /\ it = 5 /\ i = 5
    /\ client = "open"
    /\ ~sim.paused /\ sim.ticksLeft = 0
    /\ IsPause(Last(calls), FALSE) /\ Last(calls).ok

C5_Terminates ==
    /\ <>(Failed \/ pc = "done")
    /\ [](pc = "done" => ~Failed /\ TerminalState)

C5_Witness == pc = "done" /\ ~Failed /\ TerminalState

(* C6: if confirmConnection fails, no enableApiControl, setCarControls,   *)
(* simPause or simContinueForTicks call is issued and no progress         *)
(* message is printed.                                                    *)
ConnectFailed ==
    \E k \in DOMAIN calls : calls[k].op = "confirmConnection" /\ ~calls[k].ok

C6_ConnectFailure ==
    ConnectFailed =>
        /\ \A k \in DOMAIN calls : calls[k].op = "confirmConnection"
        /\ Len(calls) = 1
        /\ prints = <<>>

C6_Witness == ConnectFailed /\ pc = "aborted" /\ prints = <<>>

(* C7: a failing call ends the run at that call: no later call, no retry, *)
(* the simulator keeps the state the last successful call left; a failure *)
(* after simPause(True) and before simPause(False) of the same iteration  *)
(* leaves the simulator paused.                                           *)
FailedInPausedWindow ==
    /\ Failed
    /\ \/ IsContinue(Last(calls), 600)
       \/ IsPause(Last(calls), FALSE)

C7_FailStop ==
    [][ /\ Failed => UNCHANGED <<calls, sim, prints, sleeps, clock>>
        /\ (~Failed /\ Failed') =>
              /\ sim' = sim
              /\ pc' = "aborted"
              /\ Len(calls') = Len(calls) + 1
              /\ ~Last(calls').ok
              /\ \A k \in DOMAIN calls : calls'[k] = calls[k] /\ calls[k].ok
        /\ FailedInPausedWindow' => sim'.paused
      ]_vars

C7_Witness ==
    /\ pc = "aborted"
    /\ failedAt = "simContinueForTicks"
    /\ FailedInPausedWindow
    /\ sim.paused

(* C8: in every iteration the blocking waits are 5 after setCarControls,  *)
(* 5 after simPause(True), 20 after simContinueForTicks(600) and 10 after *)
(* simPause(False): 40 units per iteration, 200 over the 5 iterations.    *)
WaitAfter(k) == <<5, 5, 20, 10>>[((k - 1) % 4) + 1]

C8_BlockingTime ==
    /\ \A k \in DOMAIN sleeps :
          /\ sleeps[k] = WaitAfter(k)
          /\ IsLoopCall(calls[k + 2], ((k - 1) % 4) + 1)
    /\ Len(calls) >= 2 => Len(sleeps) <= Len(calls) - 2
    /\ (~Failed /\ Len(calls) >= 2) => Len(sleeps) >= Len(calls) - 3
    /\ pc = "for" => clock = 40 * it
    /\ pc = "done" => clock = 200 /\ Len(sleeps) = 20

C8_Witness == pc = "done" /\ clock = 200 /\ Len(sleeps) = 20

(* C9: at 60 ticks per time unit the 600-tick advance has completed and   *)
(* the simulator has re-paused before simPause(False) of the iteration is *)
(* issued: between simPause(True) and simPause(False) simulated time      *)
(* advances by exactly 600 ticks, none of them during the paused wait.    *)
C9_AdvanceCompletes ==
    \A k \in DOMAIN calls :
        IsPause(calls[k], FALSE) =>
            /\ k > 2
            /\ IsPause(calls[k - 2], TRUE)
            /\ IsContinue(calls[k - 1], 600)
            /\ calls[k].pre.paused
            /\ calls[k].pre.ticksLeft = 0
            /\ calls[k - 1].pre.time = calls[k - 2].pre.time
            /\ calls[k].pre.time = calls[k - 2].pre.time + 600

C9_Witness ==
    /\ Len(calls) > 2
    /\ IsPause(Last(calls), FALSE)
    /\ Last(calls).pre.paused
    /\ Last(calls).pre.time = calls[Len(calls) - 2].pre.time + 600

(* C10: every call is issued with its precondition satisfied: the         *)
(* connection is confirmed before enableApiControl; API control is        *)
(* enabled (once, before the loop, never disabled) and the simulator is   *)
(* unpaused whenever setCarControls is issued; the simulator is paused    *)
(* whenever simContinueForTicks(600) is issued.                           *)
C10_Preconditions ==
    /\ \A k \in DOMAIN calls :
          LET c == calls[k]
          IN  /\ c.op = "enableApiControl" =>
                    c.pre.connected /\ c.arg = TRUE /\ c.iter = 0
              /\ IsSetCarControls(c) => c.pre.apiControl /\ ~c.pre.paused
              /\ IsContinue(c, 600) => c.pre.paused
    /\ Count(LAMBDA c : c.op = "enableApiControl") <= 1

C10_Witness ==
    /\ it = 5
    /\ IsContinue(Last(calls), 600)
    /\ Last(calls).pre.paused
    /\ calls[Len(calls) - 2].pre.apiControl

====
